---- MODULE Spec2Model ----
(***************************************************************************)
(* Model of dtek_fact_parser.py: one fetch / extract / decode / build /    *)
(* write cycle (main), with the page published by the site as environment. *)
(*                                                                         *)
(* Text is modelled at two levels.  A Python str whose content the code    *)
(* inspects (keys, status codes, labels, dates, group ids) is a sequence   *)
(* of one-character strings.  The HTML page is a sequence of tokens, each  *)
(* token standing for a run of characters of the page:                     *)
(*   "{" , "}"   one brace character                                       *)
(*   "key"       a JSON member name with its colon (and separating comma)  *)
(*   "str"       a JSON string value                                       *)
(*   "txt"       page text without braces, spelled out in v                *)
(*   "pad"       a run of MinBodyLen filler characters without braces      *)
(* A decoded JSON value is [s |-> chars] (a str) or [d |-> pairs] (a dict, *)
(* the pairs <<key, value>> in insertion order, keys unique).              *)
(***************************************************************************)
EXTENDS Integers, Sequences, FiniteSets, TLC

VARIABLES site, pc, called, html, fact_json_str, raw_data, output, file, ret, err

vars == <<site, pc, called, html, fact_json_str, raw_data, output, file, ret, err>>

----------------------------------------------------------------------------
(* Strings *)

S_DisconSchedule == <<"D","i","s","c","o","n","S","c","h","e","d","u","l","e">>
S_factAssign == <<".","f","a","c","t"," ","="," ">>
S_presetAssign == <<".","p","r","e","s","e","t"," ","="," ">>
S_data == <<"d","a","t","a">>
S_update == <<"u","p","d","a","t","e">>
S_unknown == <<"u","n","k","n","o","w","n">>
S_yes == <<"y","e","s">>
S_no == <<"n","o">>
S_first == <<"f","i","r","s","t">>
S_second == <<"s","e","c","o","n","d">>
S_maybe == <<"m","a","y","b","e">>
S_light_on == <<"l","i","g","h","t","_","o","n">>
S_light_off == <<"l","i","g","h","t","_","o","f","f">>
S_off_first_30min == <<"o","f","f","_","f","i","r","s","t","_","3","0","m","i","n">>
S_off_second_30min == <<"o","f","f","_","s","e","c","o","n","d","_","3","0","m","i","n">>
S_possible_outage == <<"p","o","s","s","i","b","l","e","_","o","u","t","a","g","e">>

GPV(a, b) == <<"G","P","V",a,".",b>>

GROUPS_TO_PARSE ==
    << GPV("1","1"), GPV("1","2"), GPV("2","1"), GPV("2","2"),
       GPV("3","1"), GPV("3","2"), GPV("4","1"), GPV("4","2"),
       GPV("5","1"), GPV("5","2"), GPV("6","1"), GPV("6","2") >>

MinBodyLen == 1000
HttpOk == 200

Range(s) == { s[i] : i \in 1..Len(s) }

\* Python's str.find(needle, from) on 1-based positions; 0 stands for -1.
FindFrom(hay, needle, from) ==
    LET hits == { i \in from..(Len(hay) - Len(needle) + 1) :
                    SubSeq(hay, i, i + Len(needle) - 1) = needle }
    IN  IF hits = {} THEN 0 ELSE CHOOSE i \in hits : \A j \in hits : i <= j

\* Python's "needle in hay" on str.
IsSubstr(needle, hay) == FindFrom(hay, needle, 1) # 0

----------------------------------------------------------------------------
(* Page tokens *)

LB == [t |-> "{", v |-> <<>>]
RB == [t |-> "}", v |-> <<>>]
Key(s) == [t |-> "key", v |-> s]
Str(s) == [t |-> "str", v |-> s]
Txt(s) == [t |-> "txt", v |-> s]
Pad == [t |-> "pad", v |-> <<>>]

Ident == Txt(S_DisconSchedule)
FACT_MARKER == <<Ident, Txt(S_factAssign), LB>>
PRESET_MARKER == <<Ident, Txt(S_presetAssign), LB>>

\* Number of characters a token stands for.
TokLen(tok) ==
    CASE tok.t = "{" -> 1
      [] tok.t = "}" -> 1
      [] tok.t = "key" -> Len(tok.v) + 3
      [] tok.t = "str" -> Len(tok.v) + 2
      [] tok.t = "pad" -> MinBodyLen
      [] OTHER -> Len(tok.v)

RECURSIVE TextLen(_)
TextLen(text) == IF text = <<>> THEN 0 ELSE TokLen(Head(text)) + TextLen(Tail(text))

\* "DisconSchedule" in response.text
HasSentinel(text) == \E i \in 1..Len(text) : text[i] = Ident

----------------------------------------------------------------------------
(* Dicts (insertion-ordered, as Python's) *)

StrV(s) == [s |-> s]
DictV(pairs) == [d |-> pairs]
IsDict(val) == "d" \in DOMAIN val
IsStr(val) == "s" \in DOMAIN val

Keys(pairs) == { pairs[i][1] : i \in 1..Len(pairs) }
Has(pairs, k) == k \in Keys(pairs)
Get(pairs, k) == pairs[CHOOSE i \in 1..Len(pairs) : pairs[i][1] = k][2]
\* d[k] = val: an existing key keeps its position and takes the new value.
Put(pairs, k, val) ==
    IF Has(pairs, k)
    THEN [i \in 1..Len(pairs) |-> IF pairs[i][1] = k THEN <<k, val>> ELSE pairs[i]]
    ELSE Append(pairs, <<k, val>>)

----------------------------------------------------------------------------
(* json.loads on a token text: an object of members whose values are       *)
(* strings or objects; anything else, or text after the object, is a       *)
(* JSONDecodeError (ok = FALSE).                                            *)

DecodeError == [ok |-> FALSE, val |-> <<>>, next |-> 0]

RECURSIVE ParseMembers(_, _, _)
ParseMembers(toks, i, acc) ==
    IF i > Len(toks) THEN DecodeError
    ELSE IF toks[i].t = "}" THEN [ok |-> TRUE, val |-> acc, next |-> i + 1]
    ELSE IF toks[i].t = "key" /\ i + 1 <= Len(toks)
    THEN IF toks[i + 1].t = "str"
         THEN ParseMembers(toks, i + 2, Put(acc, toks[i].v, StrV(toks[i + 1].v)))
         ELSE IF toks[i + 1].t = "{"
         THEN LET r == ParseMembers(toks, i + 2, <<>>)
              IN  IF r.ok
                  THEN ParseMembers(toks, r.next, Put(acc, toks[i].v, DictV(r.val)))
                  ELSE DecodeError
         ELSE DecodeError
    ELSE DecodeError

\* Variant of JsonLoads that decodes the empty text to an empty object.
JsonLoads_emptyOk(toks) ==
    IF toks = <<>> THEN [ok |-> TRUE, val |-> <<>>, next |-> 1]
    ELSE IF toks[1].t # "{" THEN DecodeError
    ELSE LET r == ParseMembers(toks, 2, <<>>)
         IN  IF r.ok /\ r.next = Len(toks) + 1 THEN r ELSE DecodeError

JsonLoads(toks) ==
    IF toks = <<>> \/ toks[1].t # "{" THEN DecodeError
    ELSE LET r == ParseMembers(toks, 2, <<>>)
         IN  IF r.ok /\ r.next = Len(toks) + 1 THEN r ELSE DecodeError

----------------------------------------------------------------------------
(* parse_schedule *)

\* Variant of ScanBreak that stops at the first '}' without counting depth.
RECURSIVE ScanBreak_firstClose(_, _, _)
ScanBreak_firstClose(text, i, brace_count) ==
    IF i > Len(text) THEN 0
    ELSE IF text[i].t = "}" THEN i
    ELSE ScanBreak_firstClose(text, i + 1, brace_count)

\* The brace-counting loop: the position of the '}' that brings brace_count
\* back to zero (where the loop breaks), 0 when the loop ends without break.
RECURSIVE ScanBreak(_, _, _)
ScanBreak(text, i, brace_count) ==
    IF i > Len(text) THEN 0
    ELSE IF text[i].t = "{" THEN ScanBreak(text, i + 1, brace_count + 1)
    ELSE IF text[i].t = "}"
    THEN IF brace_count - 1 = 0 THEN i ELSE ScanBreak(text, i + 1, brace_count - 1)
    ELSE ScanBreak(text, i + 1, brace_count)

\* fact_json_str = html[json_start:json_end]; json_end stays json_start when
\* the loop never breaks, which leaves the empty text.
FactJsonStr(text) ==
    LET fact_start == FindFrom(text, FACT_MARKER, 1)
        json_start == FindFrom(text, <<LB>>, fact_start)
        brk == ScanBreak(text, json_start, 0)
    IN  IF brk = 0 THEN <<>> ELSE SubSeq(text, json_start, brk)

\* Variant of PresetData that treats a preset block whose braces never pair
\* up like the fact block: the empty text is decoded, which raises.
PresetData_strict(text) ==
    LET preset_start == FindFrom(text, PRESET_MARKER, 1)
    IN  IF preset_start = 0 THEN [ok |-> TRUE, val |-> <<>>]
        ELSE LET json_start == FindFrom(text, <<LB>>, preset_start)
                 brk == ScanBreak(text, json_start, 0)
                 r == JsonLoads(IF brk = 0 THEN <<>> ELSE SubSeq(text, json_start, brk))
             IN  [ok |-> r.ok, val |-> r.val]

\* The preset block: [ok, val]; ok = FALSE when json.loads raises.
PresetData(text) ==
    LET preset_start == FindFrom(text, PRESET_MARKER, 1)
    IN  IF preset_start = 0 THEN [ok |-> TRUE, val |-> <<>>]
        ELSE LET json_start == FindFrom(text, <<LB>>, preset_start)
                 brk == ScanBreak(text, json_start, 0)
             IN  IF brk = 0 THEN [ok |-> TRUE, val |-> <<>>]
                 ELSE LET r == JsonLoads(SubSeq(text, json_start, brk))
                      IN  [ok |-> r.ok, val |-> r.val]

----------------------------------------------------------------------------
(* int(), datetime.fromtimestamp().strftime("%Y-%m-%d"), f"{n:02d}" *)

DIGITS == <<"0","1","2","3","4","5","6","7","8","9">>
IsDigit(c) == c \in Range(DIGITS)
DigitVal(c) == (CHOOSE i \in 1..Len(DIGITS) : DIGITS[i] = c) - 1

RECURSIVE DigitsVal(_)
DigitsVal(s) ==
    IF s = <<>> THEN 0
    ELSE DigitsVal(SubSeq(s, 1, Len(s) - 1)) * 10 + DigitVal(s[Len(s)])

\* int(s) for a str: an optional sign and decimal digits, else ValueError.
ParseInt(s) ==
    LET signed == s # <<>> /\ s[1] \in {"-", "+"}
        body == IF signed THEN Tail(s) ELSE s
    IN  IF body = <<>> \/ \E i \in 1..Len(body) : ~IsDigit(body[i])
        THEN [ok |-> FALSE, val |-> 0]
        ELSE [ok |-> TRUE,
              val |-> IF signed /\ s[1] = "-" THEN 0 - DigitsVal(body) ELSE DigitsVal(body)]

RECURSIVE DigitsOf(_)
DigitsOf(n) ==
    IF n < 10 THEN <<DIGITS[n + 1]>>
    ELSE DigitsOf(n \div 10) \o <<DIGITS[(n % 10) + 1]>>

RECURSIVE ZeroPad(_, _)
ZeroPad(s, width) == IF Len(s) >= width THEN s ELSE ZeroPad(<<"0">> \o s, width)

\* format(n, "0{width}d"): the sign counts towards the width.
FmtD(n, width) ==
    IF n < 0 THEN <<"-">> \o ZeroPad(DigitsOf(0 - n), width - 1)
    ELSE ZeroPad(DigitsOf(n), width)

\* time_range = f"{hour-1:02d}:00-{hour:02d}:00"
TimeRange(hour) ==
    FmtD(hour - 1, 2) \o <<":","0","0","-">> \o FmtD(hour, 2) \o <<":","0","0">>

\* Calendar date of the day `days` days after 1970-01-01 (proleptic Gregorian).
CivilFromDays(days) ==
    LET z == days + 719468
        era == z \div 146097
        doe == z - era * 146097
        yoe == (doe - doe \div 1460 + doe \div 36524 - doe \div 146096) \div 365
        doy == doe - (365 * yoe + yoe \div 4 - yoe \div 100)
        mp == (5 * doy + 2) \div 153
        d == doy - (153 * mp + 2) \div 5 + 1
        m == IF mp < 10 THEN mp + 3 ELSE mp - 9
        y == yoe + era * 400 + (IF m <= 2 THEN 1 ELSE 0)
    IN  <<y, m, d>>

\* datetime.fromtimestamp(seconds).strftime("%Y-%m-%d") on a host whose local
\* time is UTC + tz seconds.
DateStr(seconds, tz) ==
    LET ymd == CivilFromDays((seconds + tz) \div 86400)
    IN  FmtD(ymd[1], 4) \o <<"-">> \o FmtD(ymd[2], 2) \o <<"-">> \o FmtD(ymd[3], 2)

----------------------------------------------------------------------------
(* format_schedule_for_group *)

\* Variant of ReadableStatus that tests status.startswith("maybe").
ReadableStatus_prefixOnly(status) ==
    IF status = StrV(S_yes) THEN StrV(S_light_on)
    ELSE IF status = StrV(S_no) THEN StrV(S_light_off)
    ELSE IF status = StrV(S_first) THEN StrV(S_off_first_30min)
    ELSE IF status = StrV(S_second) THEN StrV(S_off_second_30min)
    ELSE IF IsStr(status) /\ Len(status.s) >= Len(S_maybe)
            /\ SubSeq(status.s, 1, Len(S_maybe)) = S_maybe
    THEN StrV(S_possible_outage)
    ELSE status

\* The if/elif chain that turns a status into readable_status.  `status` is
\* a decoded value; "maybe" in status is a substring test on a str and a key
\* test on a dict.
ReadableStatus(status) ==
    IF status = StrV(S_yes) THEN StrV(S_light_on)
    ELSE IF status = StrV(S_no) THEN StrV(S_light_off)
    ELSE IF status = StrV(S_first) THEN StrV(S_off_first_30min)
    ELSE IF status = StrV(S_second) THEN StrV(S_off_second_30min)
    ELSE IF (IF IsStr(status) THEN IsSubstr(S_maybe, status.s) ELSE Has(status.d, S_maybe))
    THEN StrV(S_possible_outage)
    ELSE status

Raised == [ok |-> FALSE, val |-> <<>>]
Returned(val) == [ok |-> TRUE, val |-> val]

\* for hour_str, status in hours_data.items(): ... ; `day` is
\* result["days"][date] so far.  int(hour_str) may raise ValueError.
RECURSIVE FormatHours(_, _, _)
FormatHours(hours_items, j, day) ==
    IF j > Len(hours_items) THEN Returned(day)
    ELSE LET hour == ParseInt(hours_items[j][1])
         IN  IF ~hour.ok THEN Raised
             ELSE FormatHours(hours_items, j + 1,
                      Put(day, TimeRange(hour.val), ReadableStatus(hours_items[j][2])))

\* group in groups_data: a key test on a dict, a substring test on a str.
GroupIn(group, groups_data) ==
    IF IsDict(groups_data) THEN Has(groups_data.d, group)
    ELSE IsSubstr(group, groups_data.s)

\* for timestamp, groups_data in fact_data["data"].items(): ... ; `days` is
\* result["days"] so far.  Raises on a timestamp int() rejects, on indexing a
\* str with the group and on hours_data without items().
RECURSIVE FormatDays(_, _, _, _, _)
FormatDays(data_items, i, group, tz, days) ==
    IF i > Len(data_items) THEN Returned(days)
    ELSE LET timestamp == data_items[i][1]
             groups_data == data_items[i][2]
             seconds == ParseInt(timestamp)
         IN  IF ~seconds.ok THEN Raised
             ELSE IF ~GroupIn(group, groups_data)
             THEN FormatDays(data_items, i + 1, group, tz, days)
             ELSE IF ~IsDict(groups_data) THEN Raised
             ELSE LET date == DateStr(seconds.val, tz)
                      hours_data == Get(groups_data.d, group)
                  IN  IF ~IsDict(hours_data) THEN Raised
                      ELSE LET day == FormatHours(hours_data.d, 1, <<>>)
                           IN  IF ~day.ok THEN Raised
                               ELSE FormatDays(data_items, i + 1, group, tz,
                                        Put(days, date, DictV(day.val)))

\* Variant of format_schedule_for_group without the `"data" not in
\* fact_data` guard: fact_data["data"] raises KeyError.
format_schedule_for_group_noGuard(fact_data, group, tz) ==
    IF ~Has(fact_data, S_data) THEN Raised
    ELSE LET data == Get(fact_data, S_data)
         IN  IF ~IsDict(data) THEN Raised
             ELSE FormatDays(data.d, 1, group, tz, <<>>)

\* format_schedule_for_group(fact_data, group)["days"]
format_schedule_for_group(fact_data, group, tz) ==
    IF ~Has(fact_data, S_data) THEN Returned(<<>>)
    ELSE LET data == Get(fact_data, S_data)
         IN  IF ~IsDict(data) THEN Raised
             ELSE FormatDays(data.d, 1, group, tz, <<>>)

\* Variant of FormatGroups without the `if formatted["days"]` test.
RECURSIVE FormatGroups_keepEmpty(_, _, _, _)
FormatGroups_keepEmpty(fact_data, k, tz, groups) ==
    IF k > Len(GROUPS_TO_PARSE) THEN Returned(groups)
    ELSE LET group == GROUPS_TO_PARSE[k]
             formatted == format_schedule_for_group(fact_data, group, tz)
         IN  IF ~formatted.ok THEN Raised
             ELSE FormatGroups_keepEmpty(fact_data, k + 1, tz,
                      Put(groups, group, DictV(formatted.val)))

\* The loop of main over GROUPS_TO_PARSE; `groups` is output["groups"] so far.
RECURSIVE FormatGroups(_, _, _, _)
FormatGroups(fact_data, k, tz, groups) ==
    IF k > Len(GROUPS_TO_PARSE) THEN Returned(groups)
    ELSE LET group == GROUPS_TO_PARSE[k]
             formatted == format_schedule_for_group(fact_data, group, tz)
         IN  IF ~formatted.ok THEN Raised
             ELSE FormatGroups(fact_data, k + 1, tz,
                      IF formatted.val # <<>>
                      THEN Put(groups, group, DictV(formatted.val))
                      ELSE groups)

\* raw_data["fact"].get("update", "unknown")
UpdateTime(fact_data) ==
    IF Has(fact_data, S_update) THEN Get(fact_data, S_update) ELSE StrV(S_unknown)

----------------------------------------------------------------------------
(* The environment: the HTTP response of the site and the host's clock.    *)
(* A site is [status, prefix, fact, preset, trail, tz, now]; fact and      *)
(* preset are the token text that follows "DisconSchedule.fact = " and     *)
(* "DisconSchedule.preset = " on the page (<<>>: the marker is not on the  *)
(* page).                                                                  *)

MaxDepth == 5
MaxTrail == 2
MaxTs == 2
MaxHours == 2

RECURSIVE RenderMembers(_)
RenderMembers(pairs) ==
    IF pairs = <<>> THEN <<>>
    ELSE LET k == Head(pairs)[1]
             val == Head(pairs)[2]
         IN  <<Key(k)>>
             \o (IF IsStr(val) THEN <<Str(val.s)>>
                 ELSE <<LB>> \o RenderMembers(val.d) \o <<RB>>)
             \o RenderMembers(Tail(pairs))

\* The JSON text of a dict.
RenderObj(pairs) == <<LB>> \o RenderMembers(pairs) \o <<RB>>

Block(assign, obj) == IF obj = <<>> THEN <<>> ELSE <<Ident, Txt(assign)>> \o obj

\* response.text
Body(s) ==
    s.prefix \o Block(S_factAssign, s.fact) \o Block(S_presetAssign, s.preset) \o s.trail

SeqsUpTo(S, n) == UNION { [1..m -> S] : m \in 0..n }

S_semi == <<";">>
S_x == <<"x">>
S_12_00 == <<"1","2",":","0","0">>
S_now == <<"2","0","2","3","-","1","1","-","1","5","T","0","8",":","0","0",":","0","0">>

\* Timestamp keys: 2023-11-14 22:13:20 UTC, 2023-11-15 00:00:00 UTC,
\* 2023-11-16 00:00:00 UTC.
TS_A == <<"1","7","0","0","0","0","0","0","0","0">>
TS_B == <<"1","7","0","0","0","0","6","4","0","0">>
TS_C == <<"1","7","0","0","0","9","2","8","0","0">>
TsKeys == {TS_A, TS_B, TS_C}
TzOffsets == {0, 7200}

G11 == GPV("1","1")
G12 == GPV("1","2")
GX == GPV("9","9")

S_maybe_x == S_maybe \o <<"_","x">>
S_x_maybe == <<"x","_">> \o S_maybe
S_mayb == <<"m","a","y","b">>
S_unknown_code == S_unknown \o <<"_","c","o","d","e">>
S_yes_maybe == S_yes \o S_maybe

Codes == { S_yes, S_no, S_first, S_second, S_maybe, S_maybe_x, S_x_maybe,
           S_mayb, S_unknown_code, S_yes_maybe, <<>> }

HourKeys == { <<"1">>, <<"2">>, <<"9">>, <<"1","0">>, <<"2","4">> }

HoursA == << <<<<"1">>, StrV(S_yes)>>, <<<<"2">>, StrV(S_no)>>,
             <<<<"2","4">>, StrV(S_first)>>, <<<<"1","0">>, StrV(S_maybe)>> >>
HoursB == << <<<<"2">>, StrV(S_second)>>, <<<<"1">>, StrV(S_maybe_x)>>,
             <<<<"2","4">>, StrV(S_unknown_code)>>, <<<<"3">>, StrV(S_yes)>> >>

Min(a, b) == IF a < b THEN a ELSE b
FirstN(s, n) == SubSeq(s, 1, Min(n, Len(s)))

\* Hour mappings of one group under one timestamp.
HourMaps ==
    { FirstN(HoursA, n) : n \in 0..MaxHours } \cup { FirstN(HoursB, MaxHours) }

WithUpdate(data) == << <<S_update, StrV(S_12_00)>>, <<S_data, DictV(data)>> >>

\* One timestamp, one group, one hour: every hour key with every code.
CodeDocs ==
    { WithUpdate(<< <<TS_A, DictV(<< <<G11, DictV(<< <<h, StrV(c)>> >>)>> >>)>> >>) :
        h \in HourKeys, c \in Codes }

\* Up to MaxTs timestamps with distinct keys, GPV1.1 absent or with an hour
\* mapping under each.
TsEntries ==
    { <<ts, DictV(<<>>)>> : ts \in TsKeys }
      \cup { <<ts, DictV(<< <<G11, DictV(hm)>> >>)>> : ts \in TsKeys, hm \in HourMaps }

DaysDocs ==
    { WithUpdate(data) : data \in
        { e \in SeqsUpTo(TsEntries, MaxTs) :
            \A i, j \in 1..Len(e) : i # j => e[i][1] # e[j][1] } }

\* Several groups under one timestamp, configured or not.
GroupDocs ==
    { WithUpdate(<< <<TS_B, DictV(gs)>> >>) : gs \in
        { << <<G11, DictV(FirstN(HoursA, 2))>>, <<G12, DictV(FirstN(HoursB, 1))>> >>,
          << <<GX, DictV(FirstN(HoursA, 1))>> >>,
          << <<GX, DictV(FirstN(HoursA, 1))>>, <<G12, DictV(<<>>)>> >>,
          << <<GX, DictV(FirstN(HoursA, 1))>>, <<G12, DictV(FirstN(HoursB, 2))>> >>,
          << <<GPV("6","2"), DictV(FirstN(HoursB, 2))>>, <<G11, DictV(FirstN(HoursA, 1))>> >> } }

\* Documents without `update`, without `data`, and documents whose values
\* do not have the expected type.
OddDocs ==
    { <<>>,
      << <<S_update, StrV(S_12_00)>> >>,
      << <<S_data, DictV(<<>>)>> >>,
      << <<S_data, DictV(<< <<TS_A, DictV(<< <<G11, DictV(FirstN(HoursA, 2))>> >>)>> >>)>> >>,
      << <<S_update, DictV(<<>>)>>, <<S_x, StrV(S_x)>> >>,
      WithUpdate(<< <<S_x, DictV(<<>>)>> >>),
      WithUpdate(<< <<TS_A, StrV(G11)>> >>),
      WithUpdate(<< <<TS_A, StrV(S_x)>> >>),
      WithUpdate(<< <<TS_A, DictV(<< <<G11, StrV(S_yes)>> >>)>> >>),
      WithUpdate(<< <<TS_A, DictV(<< <<G11, DictV(<< <<S_x, StrV(S_yes)>> >>)>> >>)>> >>),
      WithUpdate(<< <<TS_A, DictV(<< <<G11, DictV(<< <<<<"1">>, DictV(<< <<S_maybe, StrV(S_x)>> >>)>> >>)>> >>)>> >>),
      WithUpdate(<< <<TS_A, DictV(<< <<G11, DictV(<< <<<<"1">>, DictV(<<>>)>> >>)>> >>)>> >>),
      << <<S_update, StrV(S_12_00)>>, <<S_data, StrV(S_x)>> >> }

Docs == CodeDocs \cup DaysDocs \cup GroupDocs \cup OddDocs

\* {"x": {"x": ... {} ... }} with n objects inside the outermost one.
RECURSIVE Nest(_)
Nest(n) == IF n = 0 THEN <<>> ELSE << <<S_x, DictV(Nest(n - 1))>> >>

BalancedObjs == { RenderObj(Nest(n)) : n \in 0..MaxDepth }
                  \cup { RenderObj(<< <<S_update, StrV(S_12_00)>>, <<S_x, DictV(Nest(1))>> >>) }
\* Text after the marker in which brace_count never returns to zero.
OpenObjs == { <<LB>>, <<LB, Key(S_x), LB, RB>>, <<LB, Key(S_x), LB, Key(S_x), LB, RB>> }
\* Brace-balanced text that json.loads rejects.
BadObjs == { <<LB, Key(S_x), RB>>, <<LB, Str(S_x), RB>>, <<LB, Txt(S_x), LB, RB, RB>> }

Trails == SeqsUpTo({LB, RB, Txt(S_semi)}, MaxTrail)
Prefixes == { <<Pad>>, <<Pad, LB, Ident>>, <<Pad, RB, Txt(S_factAssign), LB>> }

Site(status, prefix, fact, preset, trail, tz) ==
    [status |-> status, prefix |-> prefix, fact |-> fact, preset |-> preset,
     trail |-> trail, tz |-> tz, now |-> S_now]

\* Responses that exercise the guards of fetch_dtek_page.
FetchSites ==
    { Site(st, pre, f, <<>>, <<>>, 0) :
        st \in {HttpOk, 404, 503},
        pre \in { <<>>, <<Txt(S_x)>>, <<Pad>>, <<Pad, Ident>> },
        f \in { <<>>, RenderObj(<<>>) } }

\* Pages that exercise the block extraction of parse_schedule: every fact
\* block after every prefix and before every trailing text, and every preset
\* block after the fact blocks that are balanced or left open.
ExtractSites ==
    { Site(HttpOk, pre, f, <<>>, tr, 0) :
        pre \in Prefixes,
        f \in BalancedObjs \cup OpenObjs \cup BadObjs \cup {<<>>},
        tr \in Trails }
      \cup
    { Site(HttpOk, <<Pad>>, f, p, tr, 0) :
        f \in BalancedObjs \cup OpenObjs,
        p \in { RenderObj(<<>>), RenderObj(Nest(2)) } \cup OpenObjs \cup BadObjs,
        tr \in Trails }

\* Pages that carry a fact document for the schedule builder.
DocSites ==
    { Site(HttpOk, <<Pad>>, RenderObj(doc), <<>>, <<Txt(S_semi)>>, tz) :
        doc \in Docs, tz \in TzOffsets }

Sites == FetchSites \cup ExtractSites \cup DocSites

----------------------------------------------------------------------------
(* main *)

NoData == [fact |-> <<>>, preset |-> <<>>, fetched_at |-> <<>>]
NoOutput == [fetched_at |-> <<>>, update_time |-> StrV(<<>>), groups |-> <<>>]

Init ==
    /\ site \in Sites
    /\ pc = "start"
    /\ called = {}
    /\ html = <<>>
    /\ fact_json_str = <<>>
    /\ raw_data = NoData
    /\ output = NoOutput
    /\ file = <<>>
    /\ ret = <<>>
    /\ err = ""

\* Variant of FetchError whose plausibility guard needs both defects.
FetchError_and(status, text) ==
    IF status # HttpOk THEN "http"
    ELSE IF TextLen(text) < MinBodyLen /\ ~HasSentinel(text) THEN "protection"
    ELSE ""

\* The error raised by fetch_dtek_page on a response, "" when it returns.
FetchError(status, text) ==
    IF status # HttpOk THEN "http"
    ELSE IF TextLen(text) < MinBodyLen \/ ~HasSentinel(text) THEN "protection"
    ELSE ""

\* except Exception as e: print(...); return False
Fail(e) ==
    /\ err' = e
    /\ ret' = <<FALSE>>
    /\ pc' = "done"

\* html = fetch_dtek_page()
Fetch ==
    /\ pc = "start"
    /\ called' = called \cup {"fetch_dtek_page"}
    /\ LET e == FetchError(site.status, Body(site))
       IN  IF e # ""
           THEN Fail(e) /\ UNCHANGED html
           ELSE /\ html' = Body(site)
                /\ pc' = "fetched"
                /\ UNCHANGED <<ret, err>>
    /\ UNCHANGED <<site, fact_json_str, raw_data, output, file>>

\* raw_data = parse_schedule(html)
Parse ==
    /\ pc = "fetched"
    /\ called' = called \cup {"parse_schedule"}
    /\ IF FindFrom(html, FACT_MARKER, 1) = 0
       THEN Fail("marker") /\ UNCHANGED <<fact_json_str, raw_data>>
       ELSE /\ fact_json_str' = FactJsonStr(html)
            /\ LET fact_data == JsonLoads(FactJsonStr(html))
                   preset_data == PresetData(html)
               IN  IF ~fact_data.ok \/ ~preset_data.ok
                   THEN Fail("decode") /\ UNCHANGED raw_data
                   ELSE /\ raw_data' = [fact |-> fact_data.val,
                                        preset |-> preset_data.val,
                                        fetched_at |-> site.now]
                        /\ pc' = "parsed"
                        /\ UNCHANGED <<ret, err>>
    /\ UNCHANGED <<site, html, output, file>>

\* output = {...}; for group in GROUPS_TO_PARSE: ...
Build ==
    /\ pc = "parsed"
    /\ called' = called \cup {"format_schedule_for_group"}
    /\ LET groups == FormatGroups(raw_data.fact, 1, site.tz, <<>>)
       IN  IF ~groups.ok
           THEN Fail("format") /\ UNCHANGED output
           ELSE /\ output' = [fetched_at |-> raw_data.fetched_at,
                              update_time |-> UpdateTime(raw_data.fact),
                              groups |-> groups.val]
                /\ pc' = "built"
                /\ UNCHANGED <<ret, err>>
    /\ UNCHANGED <<site, html, fact_json_str, raw_data, file>>

\* Variant of Write that opens and writes the file before the schedule is
\* built as well.
Write_early ==
    /\ pc \in {"parsed", "built"}
    /\ pc = "parsed" => file = <<>>
    /\ called' = called \cup {"open"}
    /\ file' = <<output>>
    /\ pc' = (IF pc = "built" THEN "written" ELSE pc)
    /\ UNCHANGED <<site, html, fact_json_str, raw_data, output, ret, err>>

\* with open(OUTPUT_FILE, 'w') as f: json.dump(output, f, ...)
\* The file system is taken to accept the write.
Write ==
    /\ pc = "built"
    /\ called' = called \cup {"open"}
    /\ file' = <<output>>
    /\ pc' = "written"
    /\ UNCHANGED <<site, html, fact_json_str, raw_data, output, ret, err>>

\* The summary is printed; return True
Finish ==
    /\ pc = "written"
    /\ ret' = <<TRUE>>
    /\ pc' = "done"
    /\ UNCHANGED <<site, called, html, fact_json_str, raw_data, output, file, err>>

Next == Fetch \/ Parse \/ Build \/ Write \/ Finish

Spec == Init /\ [][Next]_vars

----------------------------------------------------------------------------
(* Properties *)

Started(f) == f \in called
Built == pc \in {"built", "written", "done"} /\ err = ""

\* Number of tokens of kind t among text[a..b].
Count(text, a, b, t) == Cardinality({ i \in a..b : text[i].t = t })
\* The braces of text[a..b] pair up.
Level(text, a, b) == Count(text, a, b, "{") = Count(text, a, b, "}")
\* text is one brace-balanced object: it opens with '{' and its last token
\* is the first place where the braces pair up.
BalancedObject(text) ==
    /\ text # <<>>
    /\ text[1].t = "{"
    /\ Level(text, 1, Len(text))
    /\ \A j \in 1..(Len(text) - 1) : ~Level(text, 1, j)
\* Positions where `marker` starts in text.
MarkerAt(text, marker) ==
    { i \in 1..Len(text) :
        i + Len(marker) - 1 <= Len(text) /\ \A k \in 1..Len(marker) : text[i + k - 1] = marker[k] }
\* A marker is on the page and the braces that follow its first occurrence
\* never pair up before the end of the text.
NeverCloses(text, marker) ==
    /\ MarkerAt(text, marker) # {}
    /\ LET first == CHOOSE i \in MarkerAt(text, marker) : \A j \in MarkerAt(text, marker) : i <= j
           open == first + Len(marker) - 1
       IN  \A j \in open..Len(text) : ~Level(text, open, j)

\* C1: the output file is written only after fetch, extraction, decoding and
\* schedule building have all completed without error; a failure of any of
\* them ends the run with False and no write; True is returned only on runs
\* in which the file was written.
C1_WriteOnlyAfterSuccess ==
    /\ file # <<>> =>
          /\ {"fetch_dtek_page", "parse_schedule", "format_schedule_for_group"} \subseteq called
          /\ err = ""
          /\ file = <<output>>
    /\ err # "" => pc = "done" /\ ret = <<FALSE>> /\ file = <<>>
    /\ ret = <<TRUE>> => file # <<>>
    /\ pc = "done" => ret # <<>>

C1_Witness ==
    /\ pc = "done"
    /\ err = "format"
    /\ ret = <<FALSE>>
    /\ file = <<>>
    /\ Started("format_schedule_for_group")

\* C2: when the page is prefix + marker + brace-balanced object + trailing
\* text, the scan returns exactly that object, whatever the trailing text
\* and the nesting depth.
C2_ExtractsBalancedObject ==
    (Started("parse_schedule") /\ BalancedObject(site.fact)) => fact_json_str = site.fact

C2_Witness ==
    /\ Started("parse_schedule")
    /\ site.fact = RenderObj(Nest(5))
    /\ site.trail = <<RB, LB>>
    /\ site.prefix = <<Pad, LB, Ident>>
    /\ fact_json_str = site.fact

\* C3: when the fact marker is absent from the page, or present with braces
\* that never pair up before the end of the text, parse_schedule raises, the
\* run returns False and writes no file, although the page passed the guard
\* of the fetch step.
C3_NoFactBlockFails ==
    (Started("parse_schedule")
       /\ (MarkerAt(html, FACT_MARKER) = {} \/ NeverCloses(html, FACT_MARKER)))
    => /\ pc = "done"
       /\ err = (IF MarkerAt(html, FACT_MARKER) = {} THEN "marker" ELSE "decode")
       /\ ret = <<FALSE>>
       /\ file = <<>>
       /\ raw_data = NoData
       /\ TextLen(html) >= MinBodyLen

C3_Witness ==
    /\ pc = "done"
    /\ err = "decode"
    /\ NeverCloses(html, FACT_MARKER)
    /\ site.fact = <<LB, Key(S_x), LB, RB>>
    /\ site.trail = <<Txt(S_semi), LB>>
    /\ fact_json_str = <<>>

\* C4: on a page whose fact block is a decodable object, when the preset
\* marker is absent, or present with braces that never pair up,
\* parse_schedule returns with preset = {} and with the fact value the fact
\* block decodes to.
C4_PresetNeverAborts ==
    (Started("parse_schedule")
       /\ (MarkerAt(html, PRESET_MARKER) = {} \/ NeverCloses(html, PRESET_MARKER))
       /\ BalancedObject(site.fact)
       /\ JsonLoads(site.fact).ok)
    => /\ err \notin {"marker", "decode"}
       /\ raw_data.preset = <<>>
       /\ raw_data.fact = JsonLoads(site.fact).val
       /\ raw_data.fetched_at = site.now

C4_Witness ==
    /\ pc = "parsed"
    /\ NeverCloses(html, PRESET_MARKER)
    /\ site.preset = <<LB, Key(S_x), LB, RB>>
    /\ raw_data.preset = <<>>
    /\ raw_data.fact = Nest(2)

\* C8: when the status is not 200, or the body is shorter than 1000
\* characters, or the body lacks "DisconSchedule", the run fails in the fetch
\* step: parse_schedule is never called, main returns False, and a status
\* other than 200 is the error reported whatever the body is.
C8_FetchGuardsFirst ==
    (Started("fetch_dtek_page")
       /\ (site.status # 200 \/ TextLen(Body(site)) < 1000 \/ Ident \notin Range(Body(site))))
    => /\ pc = "done"
       /\ ret = <<FALSE>>
       /\ ~Started("parse_schedule")
       /\ html = <<>>
       /\ file = <<>>
       /\ err = (IF site.status # 200 THEN "http" ELSE "protection")

C8_Witness ==
    /\ pc = "done"
    /\ site.status = 200
    /\ TextLen(Body(site)) >= 1000
    /\ Ident \notin Range(Body(site))
    /\ err = "protection"
    /\ ~Started("parse_schedule")

D_2023_11_14 == <<"2","0","2","3","-","1","1","-","1","4">>
D_2023_11_15 == <<"2","0","2","3","-","1","1","-","1","5">>
L_23_24 == <<"2","3",":","0","0","-","2","4",":","0","0">>
L_00_01 == <<"0","0",":","0","0","-","0","1",":","0","0">>

\* <<output["groups"][g][date][label]>>, <<>> when a key is missing.
OutputAt(g, date, label) ==
    IF ~Has(output.groups, g) THEN <<>>
    ELSE IF ~Has(Get(output.groups, g).d, date) THEN <<>>
    ELSE IF ~Has(Get(Get(output.groups, g).d, date).d, label) THEN <<>>
    ELSE <<Get(Get(Get(output.groups, g).d, date).d, label)>>

\* The group is a key of the mapping of some timestamp of fact["data"].
OccursUnder(g, fact) ==
    /\ Has(fact, S_data)
    /\ IsDict(Get(fact, S_data))
    /\ \E i \in 1..Len(Get(fact, S_data).d) :
          /\ IsDict(Get(fact, S_data).d[i][2])
          /\ Has(Get(fact, S_data).d[i][2].d, g)

\* C5: in every output document every date under a group maps to a
\* non-empty mapping of time ranges.
C5_NoEmptyDay ==
    Built =>
        \A i \in 1..Len(output.groups) :
            \A j \in 1..Len(output.groups[i][2].d) :
                output.groups[i][2].d[j][2].d # <<>>

\* C6: a configured group that occurs under no timestamp of `data` is absent
\* from `groups`; no key of `groups` maps to an empty object; every key of
\* `groups` is a configured group that occurs under some timestamp.
C6_OnlyMatchedGroups ==
    Built =>
        /\ \A i \in 1..Len(output.groups) :
              /\ output.groups[i][1] \in Range(GROUPS_TO_PARSE)
              /\ output.groups[i][2].d # <<>>
              /\ OccursUnder(output.groups[i][1], raw_data.fact)
        /\ \A g \in Range(GROUPS_TO_PARSE) :
              ~OccursUnder(g, raw_data.fact) => ~Has(output.groups, g)

C6_Witness ==
    /\ Built
    /\ file = <<output>>
    /\ OccursUnder(GX, raw_data.fact)
    /\ ~OccursUnder(G11, raw_data.fact)
    /\ Keys(output.groups) = {G12}
    /\ OutputAt(G12, D_2023_11_15, L_00_01) = <<StrV(S_possible_outage)>>

\* The normalization table of status codes.
RefStatus(code) ==
    CASE code = S_yes -> S_light_on
      [] code = S_no -> S_light_off
      [] code = S_first -> S_off_first_30min
      [] code = S_second -> S_off_second_30min
      [] OTHER ->
           IF \E i \in 1..Len(code) :
                 i + 4 <= Len(code) /\ \A k \in 0..4 : code[i + k] = S_maybe[k + 1]
           THEN S_possible_outage
           ELSE code

\* "HH:00-HH:00" for the hour ending at h, 1 <= h <= 99.
RefLabel(h) ==
    << DIGITS[((h - 1) \div 10) + 1], DIGITS[((h - 1) % 10) + 1], ":", "0", "0", "-",
       DIGITS[(h \div 10) + 1], DIGITS[(h % 10) + 1], ":", "0", "0" >>

\* fact["data"] of the decoded document, and the parts of its i-th entry.
Data == Get(raw_data.fact, S_data).d
DataOk == Has(raw_data.fact, S_data) /\ IsDict(Get(raw_data.fact, S_data))
Lists(i, g) == IsDict(Data[i][2]) /\ Has(Data[i][2].d, g)
HoursOf(i, g) == Get(Data[i][2].d, g).d
DateOf(i) == DateStr(ParseInt(Data[i][1]).val, site.tz)
HourOf(i, g, j) == ParseInt(HoursOf(i, g)[j][1]).val

\* Entry j of group g under timestamp i is the last one the loops process
\* for its group, date and hour.
LastForHour(i, g, j) ==
    /\ \A i2 \in (i + 1)..Len(Data) : ~(Lists(i2, g) /\ DateOf(i2) = DateOf(i))
    /\ \A j2 \in (j + 1)..Len(HoursOf(i, g)) : HourOf(i, g, j2) # HourOf(i, g, j)

\* C7: the status written for an hour entry with a string code is the
\* reference normalization of that code: the four exact matches, then
\* "possible_outage" for a code containing "maybe", else the code itself.
C7_NormalizesCodes ==
    (Built /\ DataOk) =>
        \A i \in 1..Len(Data) : \A g \in Range(GROUPS_TO_PARSE) :
            Lists(i, g) =>
                \A j \in 1..Len(HoursOf(i, g)) :
                    (/\ IsStr(HoursOf(i, g)[j][2])
                     /\ HourOf(i, g, j) \in 1..24
                     /\ LastForHour(i, g, j))
                    => OutputAt(g, DateOf(i), RefLabel(HourOf(i, g, j)))
                         = <<StrV(RefStatus(HoursOf(i, g)[j][2].s))>>

C7_Witness ==
    /\ Built
    /\ site.tz = 0
    /\ DataOk
    /\ Data = << <<TS_A, DictV(<< <<G11, DictV(<< <<<<"2","4">>, StrV(S_x_maybe)>> >>)>> >>)>> >>
    /\ OutputAt(G11, D_2023_11_14, L_23_24) = <<StrV(S_possible_outage)>>

\* C9: for every timestamp t, configured group g listed under t and hour
\* entry (h, c) with 1 <= h <= 24, the output has schedule[g][date(t)][label(h)]
\* and its value is the normalized code of an input entry for that group,
\* date and hour, also when several timestamps fall on the same date.
C9_AllHoursPresent ==
    (Built /\ DataOk) =>
        \A i \in 1..Len(Data) : \A g \in Range(GROUPS_TO_PARSE) :
            Lists(i, g) =>
                \A j \in 1..Len(HoursOf(i, g)) :
                    HourOf(i, g, j) \in 1..24 =>
                        \E i2 \in 1..Len(Data) :
                            /\ Lists(i2, g)
                            /\ DateOf(i2) = DateOf(i)
                            /\ \E j2 \in 1..Len(HoursOf(i2, g)) :
                                  /\ HourOf(i2, g, j2) = HourOf(i, g, j)
                                  /\ OutputAt(g, DateOf(i), RefLabel(HourOf(i, g, j)))
                                       = <<ReadableStatus(HoursOf(i2, g)[j2][2])>>

\* C10: a fact document without `data` is no error: the build yields no
\* group, update_time is fact["update"], or "unknown" without that field, and
\* the run writes this document and returns True.
C10_NoDataStillSucceeds ==
    (Started("format_schedule_for_group") /\ ~Has(raw_data.fact, S_data))
    => /\ err = ""
       /\ output.groups = <<>>
       /\ output.update_time =
             (IF \E i \in 1..Len(raw_data.fact) : raw_data.fact[i][1] = S_update
              THEN Get(raw_data.fact, S_update)
              ELSE StrV(S_unknown))
       /\ output.fetched_at = site.now
       /\ pc \in {"written", "done"} => file = <<output>>
       /\ pc = "done" => ret = <<TRUE>>

C10_Witness ==
    /\ pc = "done"
    /\ ret = <<TRUE>>
    /\ raw_data.fact = <<>>
    /\ file = <<[fetched_at |-> S_now, update_time |-> StrV(S_unknown), groups |-> <<>>]>>

====
